---- MODULE Spec2Model ----
(***************************************************************************)
(* A model of src/src/ingest.py: the NBA ingest script.                    *)
(*                                                                         *)
(*   - JSON values, Python truthiness and int(), text formatting           *)
(*   - pandas frames, to_csv / read_csv (with dtype inference), concat and *)
(*     drop_duplicates(keep="last"), ensure_csv and upsert_csv             *)
(*   - parse_scoreboard, parse_players_from_boxscore,                      *)
(*     parse_teams_from_boxscore                                           *)
(*   - fetch_scoreboard, fetch_boxscore and main as a sequential process   *)
(*                                                                         *)
(* Three specifications share the definitions:                             *)
(*   Spec       main(): one run of the pipeline, request by request        *)
(*   SpecMerge  the persist stanza (DataFrame, ensure_csv, upsert_csv)     *)
(*              applied again and again to one table                       *)
(*   SpecBox    the two box-score parsers applied to one document          *)
(***************************************************************************)
EXTENDS Integers, Sequences, FiniteSets, TLC

VARIABLES
    files,        \* the export directory: path -> NoFile or a CSV file
    mpc,          \* SpecMerge: the next step of the persist stanza
    table,        \* SpecMerge: the table the stanza works on
    df_new,       \* SpecMerge: the frame of the rows just collected
    df_old,       \* SpecMerge: upsert_csv's local df_old, the table as read back
    bpc,          \* SpecBox: the next step
    bs,           \* SpecBox: the tagged box-score document
    prows,        \* SpecBox: the player rows parsed from bs
    trows,        \* SpecBox: the team rows parsed from bs
    now,          \* the current US-Eastern date (a day number)
    fst,          \* fetch_*: "idle", "running" or "returned"
    fcall,        \* fetch_*: the call in progress and its arguments
    cands,        \* fetch_*: the candidate URLs not yet requested
    reqs,         \* fetch_*: the requests of this call and what each returned
    sb,           \* what fetch_scoreboard returned
    bx,           \* what fetch_boxscore returned
    pc,           \* main: where the run stands
    targets,      \* main: the target dates
    di,           \* main: index of the date being processed
    all_games,    \* main: the game records collected
    gi,           \* main: index of the game being processed
    all_players,  \* main: the player rows collected
    all_teams,    \* main: the team rows collected
    visited,      \* main: the dates fetch_scoreboard was called for, in order
    attempted     \* main: the game ids fetch_boxscore was called for, in order

mvars == <<mpc, table, df_new, df_old>>

bvars == <<bpc, bs, prows, trows>>

fvars == <<fst, fcall, cands, reqs, sb, bx>>

pvars == <<pc, targets, di, all_games, gi, all_players, all_teams, visited, attempted>>

vars == <<files, mvars, bvars, now, fvars, pvars>>

(***************************************************************************)
(* Bounds of the model.                                                    *)
(***************************************************************************)
\* longest batch of new rows handed to one upsert (SpecMerge)
MaxBatch == 2
\* most entries of a box score's team list / player list (SpecBox)
MaxEntries == 2
\* the calendar of the model: days 1..MaxDay of one month
MaxDay == 3

(***************************************************************************)
(* JSON / Python values.  A value is None, an int, a float (only whole     *)
(* floats arise: an int column that pandas promoted to float64) or a str,  *)
(* a sequence of one-character strings.  dict.get of a missing key and a   *)
(* JSON null are both None.                                                *)
(***************************************************************************)
None == [k |-> "none", s |-> <<>>, n |-> 0]

PyInt(n) == [k |-> "int", s |-> <<>>, n |-> n]

PyFloat(n) == [k |-> "float", s |-> <<>>, n |-> n]

PyStr(s) == [k |-> "str", s |-> s, n |-> 0]

IsNum(v) == v.k \in {"int", "float"}

\* Python truthiness, as used by `if x:`, `x or y`, `x and y`
Truthy(v) ==
    CASE v.k = "none" -> FALSE
      [] IsNum(v) -> v.n # 0
      [] OTHER -> v.s # <<>>

\* Python `a or b`
Or(a, b) == IF Truthy(a) THEN a ELSE b

\* Python ==, and the equality pandas' hash tables use on key values
\* (missing values compare equal to each other in duplicated())
ValEq(a, b) ==
    \/ a.k = "none" /\ b.k = "none"
    \/ IsNum(a) /\ IsNum(b) /\ a.n = b.n
    \/ a.k = "str" /\ b.k = "str" /\ a.s = b.s

DigitChars == <<"0", "1", "2", "3", "4", "5", "6", "7", "8", "9">>

IsDigit(c) == \E i \in 1..Len(DigitChars) : DigitChars[i] = c

DigitVal(c) == (CHOOSE i \in 1..Len(DigitChars) : DigitChars[i] = c) - 1

\* a non-empty run of decimal digits
IsDigits(t) == Len(t) > 0 /\ \A i \in 1..Len(t) : IsDigit(t[i])

RECURSIVE ParseNat(_)
ParseNat(t) ==
    IF Len(t) = 0 THEN 0
    ELSE 10 * ParseNat(SubSeq(t, 1, Len(t) - 1)) + DigitVal(t[Len(t)])

\* str(n) of a natural number
RECURSIVE ToText(_)
ToText(n) ==
    IF n < 10 THEN <<DigitChars[n + 1]>>
    ELSE Append(ToText(n \div 10), DigitChars[(n % 10) + 1])

\* "<digits>.0", the text of a whole float
IsFloatText(t) ==
    /\ Len(t) >= 3
    /\ t[Len(t) - 1] = "."
    /\ t[Len(t)] = "0"
    /\ IsDigits(SubSeq(t, 1, Len(t) - 2))

FloatTextInt(t) == ParseNat(SubSeq(t, 1, Len(t) - 2))

\* int(v) succeeds: an int, a whole float or a str of digits; None and any
\* other str raise (TypeError / ValueError)
IntOk(v) == IsNum(v) \/ (v.k = "str" /\ IsDigits(v.s))

IntOf(v) == IF IsNum(v) THEN v.n ELSE ParseNat(v.s)

(***************************************************************************)
(* Column names.  A name is <<prefix, rest>> with prefix "_" or "": the    *)
(* name "_source" is <<"_", "source">>, "gameId" is <<"", "gameId">>.      *)
(***************************************************************************)
Pub(name) == <<"", name>>

Priv(name) == <<"_", name>>

\* k.startswith('_')
StartsWithUnderscore(k) == k[1] = "_"

(***************************************************************************)
(* A dict is a sequence of <<key, value>> pairs in insertion order.        *)
(***************************************************************************)
Get(d, key) ==
    IF \E i \in 1..Len(d) : d[i][1] = key
    THEN d[CHOOSE i \in 1..Len(d) : d[i][1] = key][2]
    ELSE None

Keys(d) == [i \in 1..Len(d) |-> d[i][1]]

\* a call by value: the argument v is evaluated once, then F is applied to it
With(v, F(_)) == CHOOSE r \in {F(x) : x \in {v}} : TRUE

\* keep the elements of a sequence whose position satisfies Keep(_)
FilterByIndex(seq, Keep(_)) ==
    With(seq, LAMBDA sq :
      LET F[i \in 0..Len(sq)] ==
              IF i = 0 THEN <<>>
              ELSE IF Keep(i) THEN Append(F[i - 1], sq[i]) ELSE F[i - 1]
      IN  F[Len(sq)])

SeqsUpTo(S, n) == UNION {[1..m -> S] : m \in 0..n}

(***************************************************************************)
(* pandas frames: the column names, one dtype per column ("int64",         *)
(* "float64" or "object") and the rows, each a tuple of values.            *)
(***************************************************************************)
ColumnOf(rows, c) == [i \in 1..Len(rows) |-> rows[i][c]]

Vals(col) == {col[i] : i \in 1..Len(col)}

\* the dtype pandas infers for a column of Python values
InferDtype(col) ==
    IF \E v \in Vals(col) : v.k = "str" THEN "object"
    ELSE IF \A v \in Vals(col) : v.k = "none" THEN "object"
    ELSE IF \A v \in Vals(col) : v.k = "int" THEN "int64"
    ELSE "float64"

\* a value stored in a column of the given dtype: float64 holds ints as floats
Cast(v, dtype) == IF dtype = "float64" /\ v.k = "int" THEN PyFloat(v.n) ELSE v

\* pd.DataFrame(list of dicts): the columns are the keys of the dicts
DataFrame(dicts) ==
    With(dicts, LAMBDA ds :
      IF ds = <<>> THEN [columns |-> <<>>, dtypes |-> <<>>, rows |-> <<>>]
      ELSE With(Keys(ds[1]), LAMBDA cols :
           With([i \in 1..Len(ds) |->
                    [c \in 1..Len(cols) |-> Get(ds[i], cols[c])]], LAMBDA raw :
           With([c \in 1..Len(cols) |-> InferDtype(ColumnOf(raw, c))], LAMBDA dts :
             [columns |-> cols,
              dtypes  |-> dts,
              rows    |-> [i \in 1..Len(raw) |->
                             [c \in 1..Len(cols) |-> Cast(raw[i][c], dts[c])]]]))))

(***************************************************************************)
(* Files.  A path holds no file, or a CSV file: its header line and its    *)
(* data lines, each a tuple of cell texts.                                 *)
(***************************************************************************)
NoFile == [exists |-> FALSE, header |-> <<>>, lines |-> <<>>]

CsvFile(header, lines) == [exists |-> TRUE, header |-> header, lines |-> lines]

\* the text to_csv writes for a value: a missing value is the empty cell
CellText(v) ==
    CASE v.k = "none" -> <<>>
      [] v.k = "int" -> ToText(v.n)
      [] v.k = "float" -> ToText(v.n) \o <<".", "0">>
      [] OTHER -> v.s

\* df.to_csv(path, index=False)
to_csv(df) ==
    With(df, LAMBDA d :
      CsvFile(d.columns,
              [i \in 1..Len(d.rows) |->
                  [c \in 1..Len(d.columns) |-> CellText(d.rows[i][c])]]))

\* the dtype read_csv infers for a column of cell texts
ReadDtype(cells) ==
    LET full == {cells[i] : i \in 1..Len(cells)} \ {<<>>}
    IN  IF Len(cells) = 0 THEN "object"
        ELSE IF \A t \in full : IsDigits(t)
             THEN IF <<>> \in Vals(cells) \/ full = {} THEN "float64" ELSE "int64"
        ELSE IF \A t \in full : IsDigits(t) \/ IsFloatText(t) THEN "float64"
        ELSE "object"

\* the value read_csv gives a cell of a column of the given dtype
ReadCell(t, dtype) ==
    IF t = <<>> THEN None
    ELSE CASE dtype = "int64" -> PyInt(ParseNat(t))
           [] dtype = "float64" ->
                PyFloat(IF IsFloatText(t) THEN FloatTextInt(t) ELSE ParseNat(t))
           [] OTHER -> PyStr(t)

\* pd.read_csv(path)
read_csv(file) ==
    With(file, LAMBDA f :
    With([c \in 1..Len(f.header) |-> ReadDtype(ColumnOf(f.lines, c))], LAMBDA dts :
      [columns |-> f.header,
       dtypes  |-> dts,
       rows    |-> [i \in 1..Len(f.lines) |->
                      [c \in 1..Len(f.header) |-> ReadCell(f.lines[i][c], dts[c])]]]))

\* the dtype of a column of pd.concat: a frame without rows does not count
ConcatDtype(a, na, b, nb) ==
    IF na = 0 THEN b
    ELSE IF nb = 0 THEN a
    ELSE IF a = b THEN a
    ELSE IF {a, b} = {"int64", "float64"} THEN "float64"
    ELSE "object"

\* pd.concat([df_old, df_new], ignore_index=True); both frames of a path have
\* the columns of that path's table
concat(old, new) ==
    With(<<old, new>>, LAMBDA fr :
    With([c \in 1..Len(fr[1].columns) |->
             ConcatDtype(fr[1].dtypes[c], Len(fr[1].rows),
                         fr[2].dtypes[c], Len(fr[2].rows))], LAMBDA dts :
    With(fr[1].rows \o fr[2].rows, LAMBDA all :
      [columns |-> fr[1].columns,
       dtypes  |-> dts,
       rows    |-> [i \in 1..Len(all) |->
                      [c \in 1..Len(dts) |-> Cast(all[i][c], dts[c])]]])))

ColIndex(columns, name) == CHOOSE c \in 1..Len(columns) : columns[c] = name

\* two rows agree on every column of the subset
SameKey(r1, r2, columns, subset) ==
    \A j \in 1..Len(subset) :
        ValEq(r1[ColIndex(columns, subset[j])], r2[ColIndex(columns, subset[j])])

\* a de-duplication that leaves the last-seen values at the first-seen position
drop_duplicates_first_position(df, subset) ==
    With(df, LAMBDA d :
      LET n == Len(d.rows)
          First(i) == ~\E j \in 1..(i - 1) :
                          SameKey(d.rows[i], d.rows[j], d.columns, subset)
          LastOf(i) == CHOOSE j \in i..n :
                          /\ SameKey(d.rows[i], d.rows[j], d.columns, subset)
                          /\ ~\E l \in (j + 1)..n :
                                 SameKey(d.rows[i], d.rows[l], d.columns, subset)
      IN  [d EXCEPT !.rows = FilterByIndex([i \in 1..n |-> d.rows[LastOf(i)]], First)])

\* df.drop_duplicates(subset=..., keep="last"): a row goes when a later row
\* has its key; the rows that stay keep their places
drop_duplicates(df, subset) ==
    With(df, LAMBDA d :
      LET Keep(i) == ~\E j \in (i + 1)..Len(d.rows) :
                         SameKey(d.rows[i], d.rows[j], d.columns, subset)
      IN  [d EXCEPT !.rows = FilterByIndex(d.rows, Keep)])

\* ensure_csv(path, columns): a missing file is created with the header only
ensure_csv(file, columns) == IF file.exists THEN file ELSE CsvFile(columns, <<>>)

\* upsert_csv(path, df_new, dedupe_keys): the file it leaves at path
upsert_csv(file, new, dedupe_keys) ==
    With(IF file.exists THEN concat(read_csv(file), new) ELSE new, LAMBDA df_all :
      to_csv(drop_duplicates(df_all, dedupe_keys)))

(***************************************************************************)
(* Dates and URLs.                                                         *)
(***************************************************************************)
Days == 1..MaxDay

\* a date of the model's month
Date(day) == [year |-> 2024, month |-> 1, day |-> day]

\* f"{n:0{w}d}"
ZeroPad(n, w) == [i \in 1..(w - Len(ToText(n))) |-> "0"] \o ToText(n)

\* lines 48-49
date_yyyymmdd(d) == ZeroPad(d.year, 4) \o ZeroPad(d.month, 2) \o ZeroPad(d.day, 2)

\* lines 51-55
daterange(a, b) == [i \in 1..(IF b >= a THEN b - a + 1 ELSE 0) |-> a + i - 1]

Url(kind, ymd, game_id) == [kind |-> kind, ymd |-> ymd, game_id |-> game_id]

FamilyOf(url) ==
    IF url.kind \in {"live_date", "live_today", "box_live"} THEN "live" ELSE "legacy"

\* the live candidates with today's URL for every date
live_candidates_today_always(day, today) ==
    <<Url("live_date", date_yyyymmdd(Date(day)), None), Url("live_today", <<>>, None)>>

\* lines 73-77: the date-keyed live URL, and today's when d is today
live_candidates(day, today) ==
    <<Url("live_date", date_yyyymmdd(Date(day)), None)>>
    \o (IF day = today THEN <<Url("live_today", <<>>, None)>> ELSE <<>>)

\* lines 85-88
legacy_candidates(day) ==
    <<Url("legacy_v1", date_yyyymmdd(Date(day)), None),
      Url("legacy_v2", date_yyyymmdd(Date(day)), None)>>

\* the box-score candidates with the legacy URLs whatever the date hint
boxscore_candidates_any_hint(game_id, gameDateYmd) ==
    <<Url("box_live", <<>>, game_id),
      Url("box_v1", gameDateYmd.s, game_id), Url("box_v2", gameDateYmd.s, game_id)>>

\* lines 141, 145-147: the URLs fetch_boxscore may request, in order
boxscore_candidates(game_id, gameDateYmd) ==
    <<Url("box_live", <<>>, game_id)>>
    \o (IF Truthy(gameDateYmd)
        THEN <<Url("box_v1", gameDateYmd.s, game_id), Url("box_v2", gameDateYmd.s, game_id)>>
        ELSE <<>>)

(***************************************************************************)
(* Box-score documents.  A document is tagged with the family that         *)
(* answered (_source) and has the shape of that family: `game` for the     *)
(* live family, `basicGameData` and `stats` for the legacy one.  A missing *)
(* sub-object is one whose fields are all None (`x.get(k) or {}`).         *)
(***************************************************************************)
NoLive ==
    [gameId |-> None,
     homeTeam |-> [teamId |-> None, score |-> None],
     awayTeam |-> [teamId |-> None, score |-> None],
     boxScore |-> [teams |-> <<>>, players |-> <<>>]]

NoTotals == [points |-> None, pts |-> None]

NoStatsTeam ==
    [teamId |-> None, score |-> None, points |-> None, pts |-> None,
     hasTotals |-> FALSE, totals |-> NoTotals]

NoBasic ==
    [gameId |-> None, hTeam |-> [teamId |-> None], vTeam |-> [teamId |-> None]]

NoStats == [hTeam |-> NoStatsTeam, vTeam |-> NoStatsTeam, activePlayers |-> <<>>]

LiveBox(game) ==
    [source |-> "live", game |-> game, basicGameData |-> NoBasic, stats |-> NoStats]

LegacyBox(basic, stats) ==
    [source |-> "legacy", game |-> NoLive, basicGameData |-> basic, stats |-> stats]

\* int(a) > int(b) inside try/except: 1 or 0, or None when int() raises
WinOf(a, b) ==
    IF IntOk(a) /\ IntOk(b)
    THEN (IF IntOf(a) > IntOf(b) THEN PyInt(1) ELSE PyInt(0))
    ELSE None

\* lines 161-188: the player rows of a live box score
parse_players_live(js) ==
    LET game    == js.game
        box     == game.boxScore
        game_id == game.gameId
        \* teams = {t.teamTricode: t}: a later entry replaces an earlier one
        InTeams(tri) == \E i \in 1..Len(box.teams) : ValEq(box.teams[i].teamTricode, tri)
        TeamOf(tri) ==
            box.teams[CHOOSE i \in 1..Len(box.teams) :
                         /\ ValEq(box.teams[i].teamTricode, tri)
                         /\ \A j \in (i + 1)..Len(box.teams) :
                                ~ValEq(box.teams[j].teamTricode, tri)]
        Row(p) ==
            <<<<Pub("gameId"), game_id>>,
              <<Pub("playerId"), p.personId>>,
              <<Pub("teamId"),
                IF InTeams(p.teamTricode) THEN TeamOf(p.teamTricode).teamId ELSE None>>,
              <<Pub("teamTricode"), p.teamTricode>>,
              <<Pub("points"), p.points>>>>
        rows == [i \in 1..Len(box.players) |-> Row(box.players[i])]
    IN  FilterByIndex(rows, LAMBDA i :
            Truthy(Get(rows[i], Pub("gameId"))) /\ Truthy(Get(rows[i], Pub("playerId"))))

\* lines 190-213: the player rows of a legacy box score
parse_players_legacy(js) ==
    LET game_id == js.basicGameData.gameId
        active  == js.stats.activePlayers
        Row(p) ==
            <<<<Pub("gameId"), game_id>>,
              <<Pub("playerId"), p.personId>>,
              <<Pub("teamId"), p.teamId>>,
              <<Pub("teamTricode"), None>>,
              <<Pub("points"), p.points>>>>
        rows == [i \in 1..Len(active) |-> Row(active[i])]
    IN  FilterByIndex(rows, LAMBDA i :
            Truthy(Get(rows[i], Pub("gameId"))) /\ Truthy(Get(rows[i], Pub("playerId"))))

\* lines 156-213
parse_players_from_boxscore(js) ==
    IF js.source = "live" THEN parse_players_live(js) ELSE parse_players_legacy(js)

\* line 226: the score a live box score gives a team, `x.get("score") or 0`
LiveScore(team) == Or(team.score, PyInt(0))

\* lines 220-253: the team rows of a live box score; every entry of the team
\* list gives a row
parse_teams_live(js) ==
    LET game       == js.game
        teams      == game.boxScore.teams
        home_id    == game.homeTeam.teamId
        away_id    == game.awayTeam.teamId
        home_score == LiveScore(game.homeTeam)
        away_score == LiveScore(game.awayTeam)
        \* the dicts {home_id: ..., away_id: ...}: the away entry replaces the
        \* home entry when the two ids are equal
        InScores(id) == ValEq(id, home_id) \/ ValEq(id, away_id)
        ScoreOf(id)  == IF ValEq(id, away_id) THEN away_score ELSE home_score
        OppOf(id)    == IF ValEq(id, away_id) THEN home_id
                        ELSE IF ValEq(id, home_id) THEN away_id ELSE None
        Row(t) ==
            LET team_id == t.teamId
                is_home == IF ValEq(team_id, home_id) THEN PyInt(1)
                           ELSE IF ValEq(team_id, away_id) THEN PyInt(0) ELSE None
                opp_id  == OppOf(team_id)
                win     == IF InScores(team_id) /\ InScores(opp_id)
                           THEN WinOf(ScoreOf(team_id), ScoreOf(opp_id))
                           ELSE None
            IN  <<<<Pub("gameId"), game.gameId>>,
                  <<Pub("teamId"), team_id>>,
                  <<Pub("opponentTeamId"), opp_id>>,
                  <<Pub("home"), is_home>>,
                  <<Pub("win"), win>>,
                  <<Pub("points"), IF t.score.k # "none" THEN t.score ELSE t.points>>>>
    IN  [i \in 1..Len(teams) |-> Row(teams[i])]

\* lines 260-263: the entry of stats and its totals, `t.get("totals") or t`
Totals(t) == IF t.hasTotals THEN t.totals ELSE [points |-> t.points, pts |-> t.pts]

\* lines 271-272
score_of(meta, totals) == Or(Or(meta.score, totals.points), totals.pts)

\* lines 255-309: the team rows of a legacy box score
parse_teams_legacy(js) ==
    LET game       == js.basicGameData
        stats      == js.stats
        home_id    == Or(game.hTeam.teamId, stats.hTeam.teamId)
        away_id    == Or(game.vTeam.teamId, stats.vTeam.teamId)
        home_score == score_of(stats.hTeam, Totals(stats.hTeam))
        away_score == score_of(stats.vTeam, Totals(stats.vTeam))
        mk(base, meta, is_home_flag) ==
            LET win == IF home_score.k # "none" /\ away_score.k # "none"
                       THEN (IF is_home_flag = 1 THEN WinOf(home_score, away_score)
                             ELSE WinOf(away_score, home_score))
                       ELSE None
            IN  <<<<Pub("gameId"), game.gameId>>,
                  <<Pub("teamId"), Or(base.teamId, meta.teamId)>>,
                  <<Pub("opponentTeamId"), IF is_home_flag = 1 THEN away_id ELSE home_id>>,
                  <<Pub("home"), PyInt(is_home_flag)>>,
                  <<Pub("win"), win>>,
                  <<Pub("points"), score_of(meta, Totals(meta))>>>>
    IN  (IF Truthy(home_id) THEN <<mk(game.hTeam, stats.hTeam, 1)>> ELSE <<>>)
        \o (IF Truthy(away_id) THEN <<mk(game.vTeam, stats.vTeam, 0)>> ELSE <<>>)

\* lines 215-309
parse_teams_from_boxscore(js) ==
    IF js.source = "live" THEN parse_teams_live(js) ELSE parse_teams_legacy(js)

(***************************************************************************)
(* The three tables: path, dedupe keys (main, lines 366, 389, 396).        *)
(***************************************************************************)
GAMES_CSV == "games.csv"

TEAM_CSV == "team_stats.csv"

PLAYERS_CSV == "player_stats.csv"

Paths == {GAMES_CSV, TEAM_CSV, PLAYERS_CSV}

DedupeKeys(path) ==
    CASE path = GAMES_CSV -> <<Pub("gameId")>>
      [] path = TEAM_CSV -> <<Pub("gameId"), Pub("teamId")>>
      [] OTHER -> <<Pub("gameId"), Pub("playerId")>>

\* the dict with every key kept
StripNothing(d) == d

\* the dicts of a batch without the keys that start with an underscore
StripPrivate(d) == FilterByIndex(d, LAMBDA i : ~StartsWithUnderscore(d[i][1]))

\* lines 364-366, 387-389, 394-396: frame, ensure_csv, upsert_csv
Persist(fs, path, dicts) ==
    With(DataFrame(dicts), LAMBDA df :
      [fs EXCEPT ![path] =
          upsert_csv(ensure_csv(fs[path], df.columns), df, DedupeKeys(path))])

(***************************************************************************)
(* Scoreboard documents and the transport.  http_get_json returns None     *)
(* (status "fail": no 200, or an exception, caught at lines 63-65), or the *)
(* decoded JSON object: the empty object {} (status "empty") or an object  *)
(* with keys (status "doc").  `if js:` is true of the last only.           *)
(***************************************************************************)
LiveTag == PyStr(<<"l", "i", "v", "e">>)

LegacyTag == PyStr(<<"l", "e", "g", "a", "c", "y">>)

\* an entry of a scoreboard's game list: homeTeam/awayTeam in the live
\* family, hTeam/vTeam in the legacy one
RawGame(gameId, homeScore, awayScore) ==
    [gameId |-> gameId, home |-> [score |-> homeScore], away |-> [score |-> awayScore]]

Failed == [status |-> "fail", shape |-> "", games |-> <<>>, box |-> LiveBox(NoLive)]

EmptyDoc == [status |-> "empty", shape |-> "", games |-> <<>>, box |-> LiveBox(NoLive)]

ScoreboardDoc(shape, games) ==
    [status |-> "doc", shape |-> shape, games |-> games, box |-> LiveBox(NoLive)]

BoxDoc(box) == [status |-> "doc", shape |-> box.source, games |-> <<>>, box |-> box]

GameA == PyStr(<<"0", "0", "2", "1">>)

GameB == PyStr(<<"0", "0", "2", "2">>)

\* the game lists a scoreboard may hold
ScoreboardGames(shape) ==
    IF shape = "live"
    THEN {<<RawGame(GameA, PyInt(90), PyInt(88))>>,
          <<RawGame(None, None, None), RawGame(GameB, PyInt(95), PyInt(88))>>}
    ELSE {<<RawGame(GameA, PyStr(<<"9", "5">>), PyStr(<<"8", "8">>))>>}

\* the box scores the provider may hold for a game
BoxBodies(url) ==
    IF FamilyOf(url) = "live"
    THEN {LiveBox([gameId |-> url.game_id,
                   homeTeam |-> [teamId |-> PyInt(7), score |-> PyInt(95)],
                   awayTeam |-> [teamId |-> PyInt(8), score |-> PyInt(90)],
                   boxScore |->
                     [teams |-> <<[teamId |-> PyInt(7), teamTricode |-> PyStr(<<"B", "O", "S">>),
                                   score |-> PyInt(95), points |-> None]>>,
                      players |-> <<[personId |-> PyInt(30),
                                     teamTricode |-> PyStr(<<"B", "O", "S">>),
                                     points |-> PyInt(9)]>>]]),
          LiveBox([NoLive EXCEPT !.gameId = url.game_id])}
    ELSE {LegacyBox([gameId |-> url.game_id,
                     hTeam |-> [teamId |-> PyStr(<<"7">>)],
                     vTeam |-> [teamId |-> None]],
                    [hTeam |-> [NoStatsTeam EXCEPT !.score = PyStr(<<"9", "5">>)],
                     vTeam |-> [NoStatsTeam EXCEPT !.score = PyStr(<<"9", "0">>)],
                     activePlayers |-> <<[personId |-> PyStr(<<"3", "0">>),
                                          teamId |-> PyStr(<<"7">>),
                                          points |-> PyStr(<<"9">>)]>>])}

\* the transport, with the except clause of lines 63-65 left out: a request
\* that fails raises
http_get_json_uncaught(url) ==
    {[Failed EXCEPT !.status = "raise"], EmptyDoc}
    \cup (IF url.kind \in {"box_live", "box_v1", "box_v2"}
          THEN {BoxDoc(b) : b \in BoxBodies(url)}
          ELSE {ScoreboardDoc(FamilyOf(url), g) : g \in ScoreboardGames(FamilyOf(url))})

\* lines 57-65: what a GET of the URL may return
http_get_json(url) ==
    {Failed, EmptyDoc}
    \cup (IF url.kind \in {"box_live", "box_v1", "box_v2"}
          THEN {BoxDoc(b) : b \in BoxBodies(url)}
          ELSE {ScoreboardDoc(FamilyOf(url), g) : g \in ScoreboardGames(FamilyOf(url))})

\* what fetch_scoreboard returns: None, or the document with _source and _ymd
NoScoreboard == [ok |-> FALSE, source |-> "", ymd |-> <<>>, shape |-> "", games |-> <<>>]

TaggedScoreboard(js, family, ymd) ==
    [ok |-> TRUE, source |-> family, ymd |-> ymd, shape |-> js.shape, games |-> js.games]

\* what fetch_boxscore returns: None, or the document with _source
NoBoxscore == [ok |-> FALSE, doc |-> LiveBox(NoLive)]

TaggedBoxscore(js, family) == [ok |-> TRUE, doc |-> [js.box EXCEPT !.source = family]]

\* lines 98-136: the game records of a tagged scoreboard
parse_scoreboard(js) ==
    LET \* js.get("scoreboard").get("games") / js.get("games")
        raw == IF js.source = "live"
               THEN (IF js.shape = "live" THEN js.games ELSE <<>>)
               ELSE (IF js.shape = "legacy" THEN js.games ELSE <<>>)
        Rec(g) ==
            <<<<Pub("gameId"), g.gameId>>,
              <<Pub("homeScore"), g.home.score>>,
              <<Pub("awayScore"), g.away.score>>,
              <<Pub("gameDateYmd"), PyStr(js.ymd)>>,
              <<Priv("source"), IF js.source = "live" THEN LiveTag ELSE LegacyTag>>>>
        games == [i \in 1..Len(raw) |-> Rec(raw[i])]
    IN  IF ~js.ok THEN <<>>
        ELSE FilterByIndex(games, LAMBDA i : Truthy(Get(games[i], Pub("gameId"))))

\* a table persisted whether or not rows were collected
PersistAlways(fs, path, dicts) == Persist(fs, path, dicts)

\* lines 363-368, 386-398: a table is persisted when rows were collected
PersistIfAny(fs, path, dicts) == IF dicts # <<>> THEN Persist(fs, path, dicts) ELSE fs

(***************************************************************************)
(* fetch_scoreboard and fetch_boxscore, request by request.                *)
(***************************************************************************)
NoCall == [fn |-> "", day |-> 0, today |-> 0, game_id |-> None, hint |-> None]

\* lines 69-77, 85-88: fetch_scoreboard(d) is entered; the candidates are
\* fixed by d and by the date of the moment
BeginScoreboard(day) ==
    /\ fcall' = [fn |-> "scoreboard", day |-> day, today |-> now,
                 game_id |-> None, hint |-> None]
    /\ cands' = live_candidates(day, now) \o legacy_candidates(day)
    /\ reqs' = <<>>
    /\ fst' = "running"
    /\ UNCHANGED <<sb, bx>>

\* lines 140-147: fetch_boxscore(game_id, gameDateYmd) is entered
BeginBoxscore(game_id, gameDateYmd) ==
    /\ fcall' = [fn |-> "boxscore", day |-> 0, today |-> 0,
                 game_id |-> game_id, hint |-> gameDateYmd]
    /\ cands' = boxscore_candidates(game_id, gameDateYmd)
    /\ reqs' = <<>>
    /\ fst' = "running"
    /\ UNCHANGED <<sb, bx>>

\* lines 78-94: one pass of a candidate loop of fetch_scoreboard.  An
\* exception of the transport would leave the function and its caller.
FetchScoreboardStep ==
    /\ fst = "running"
    /\ fcall.fn = "scoreboard"
    /\ \E js \in http_get_json(Head(cands)) :
          /\ reqs' = Append(reqs, [url |-> Head(cands), got |-> js.status])
          /\ cands' = Tail(cands)
          /\ IF js.status = "raise"
             THEN fst' = "raised" /\ sb' = sb
             ELSE IF js.status = "doc"
             THEN /\ fst' = "returned"
                  /\ sb' = TaggedScoreboard(js, FamilyOf(Head(cands)),
                                            date_yyyymmdd(Date(fcall.day)))
             ELSE IF Tail(cands) = <<>>
             THEN fst' = "returned" /\ sb' = NoScoreboard
             ELSE fst' = "running" /\ sb' = sb
    /\ UNCHANGED <<files, mvars, bvars, now, fcall, bx, pvars>>

\* lines 141-152: one request of fetch_boxscore
FetchBoxscoreStep ==
    /\ fst = "running"
    /\ fcall.fn = "boxscore"
    /\ \E js \in http_get_json(Head(cands)) :
          /\ reqs' = Append(reqs, [url |-> Head(cands), got |-> js.status])
          /\ cands' = Tail(cands)
          /\ IF js.status = "raise"
             THEN fst' = "raised" /\ bx' = bx
             ELSE IF js.status = "doc"
             THEN /\ fst' = "returned"
                  /\ bx' = TaggedBoxscore(js, FamilyOf(Head(cands)))
             ELSE IF Tail(cands) = <<>>
             THEN fst' = "returned" /\ bx' = NoBoxscore
             ELSE fst' = "running" /\ bx' = bx
    /\ UNCHANGED <<files, mvars, bvars, now, fcall, sb, pvars>>

\* midnight in New York: et_now_date() (lines 45-46) gives the next day
Tick ==
    /\ now < MaxDay
    /\ now' = now + 1
    /\ UNCHANGED <<files, mvars, bvars, fvars, pvars>>

(***************************************************************************)
(* main.                                                                   *)
(***************************************************************************)
\* lines 340-343: START_DATE and END_DATE
RangeTargets(a, b) == IF b < a THEN daterange(b, a) ELSE daterange(a, b)

\* lines 345-347: DAYS_BACK
DaysBackTargets(days_back, today) ==
    LET n == IF days_back > 1 THEN days_back ELSE 1
    IN  [i \in 1..(n + 1) |-> today - (n + 1 - i)]

\* line 350
DefaultTargets(today) == <<today - 1, today>>

\* the target lists the environment may ask for
TargetChoices(today) ==
    {RangeTargets(a, b) : a \in Days, b \in Days}
    \cup {DaysBackTargets(n, today) : n \in 0..1}
    \cup {DefaultTargets(today)}

\* lines 336-351
MStart ==
    /\ pc = "start"
    /\ \E t \in TargetChoices(now) : targets' = t
    /\ di' = 1
    /\ all_games' = <<>>
    /\ pc' = "sb_call"
    /\ UNCHANGED <<files, mvars, bvars, now, fvars, gi, all_players, all_teams,
                   visited, attempted>>

\* lines 355-356: the scoreboard of the next date is asked for
MScoreboardCall ==
    /\ pc = "sb_call"
    /\ BeginScoreboard(targets[di])
    /\ visited' = Append(visited, targets[di])
    /\ pc' = "sb_wait"
    /\ UNCHANGED <<files, mvars, bvars, now, targets, di, all_games, gi,
                   all_players, all_teams, attempted>>

\* lines 357-360: the games of the date are parsed and collected
MScoreboardParse ==
    /\ pc = "sb_wait"
    /\ fst = "returned"
    /\ all_games' = all_games \o (IF sb.ok THEN parse_scoreboard(sb) ELSE <<>>)
    /\ di' = di + 1
    /\ pc' = IF di = Len(targets) THEN "persist_games" ELSE "sb_call"
    /\ fst' = "idle"
    /\ UNCHANGED <<files, mvars, bvars, now, fcall, cands, reqs, sb, bx, targets, gi,
                   all_players, all_teams, visited, attempted>>

\* line 364: the records without their private keys
games_rows(games) == [i \in 1..Len(games) |-> StripPrivate(games[i])]

\* lines 363-372
MPersistGames ==
    /\ pc = "persist_games"
    /\ files' = PersistIfAny(files, GAMES_CSV, games_rows(all_games))
    /\ gi' = 1
    /\ all_players' = <<>>
    /\ all_teams' = <<>>
    /\ pc' = "box_call"
    /\ UNCHANGED <<mvars, bvars, now, fvars, targets, di, all_games, visited, attempted>>

\* lines 373-376: the box score of the next game is asked for
MBoxscoreCall ==
    /\ pc = "box_call"
    /\ IF gi > Len(all_games)
       THEN pc' = "persist_players" /\ UNCHANGED <<fvars, gi, attempted>>
       ELSE IF ~Truthy(Get(all_games[gi], Pub("gameId")))
       THEN pc' = "box_call" /\ gi' = gi + 1 /\ UNCHANGED <<fvars, attempted>>
       ELSE /\ BeginBoxscore(Get(all_games[gi], Pub("gameId")),
                             Get(all_games[gi], Pub("gameDateYmd")))
            /\ attempted' = Append(attempted, Get(all_games[gi], Pub("gameId")))
            /\ pc' = "box_wait"
            /\ gi' = gi
    /\ UNCHANGED <<files, mvars, bvars, now, targets, di, all_games,
                   all_players, all_teams, visited>>

\* lines 377-384: the rows of the game are parsed and collected
MBoxscoreParse ==
    /\ pc = "box_wait"
    /\ fst = "returned"
    /\ IF bx.ok
       THEN /\ all_players' = all_players \o parse_players_from_boxscore(bx.doc)
            /\ all_teams' = all_teams \o parse_teams_from_boxscore(bx.doc)
       ELSE UNCHANGED <<all_players, all_teams>>
    /\ gi' = gi + 1
    /\ pc' = "box_call"
    /\ fst' = "idle"
    /\ UNCHANGED <<files, mvars, bvars, now, fcall, cands, reqs, sb, bx, targets, di,
                   all_games, visited, attempted>>

\* lines 386-391
MPersistPlayers ==
    /\ pc = "persist_players"
    /\ files' = PersistIfAny(files, PLAYERS_CSV, all_players)
    /\ pc' = "persist_teams"
    /\ UNCHANGED <<mvars, bvars, now, fvars, targets, di, all_games, gi,
                   all_players, all_teams, visited, attempted>>

\* lines 393-400
MPersistTeams ==
    /\ pc = "persist_teams"
    /\ files' = PersistIfAny(files, TEAM_CSV, all_teams)
    /\ pc' = "done"
    /\ UNCHANGED <<mvars, bvars, now, fvars, targets, di, all_games, gi,
                   all_players, all_teams, visited, attempted>>

(***************************************************************************)
(* SpecMerge: the persist stanza of main on one table, with the collected  *)
(* rows drawn from small sets, run after run.                              *)
(***************************************************************************)
\* game ids: a digit string with leading zeros, as the provider gives them, and
\* the id of the specification's example, "G1"
GameIds == {PyStr(<<"0", "0", "2", "1">>), PyStr(<<"G", "1">>)}

\* player ids as the live family gives them
PlayerIds == {PyInt(7), PyInt(8)}

Scores == {PyInt(90), PyInt(95)}

\* the rows a run may collect for a table
MergeRows(path) ==
    CASE path = GAMES_CSV ->
           {<<<<Pub("gameId"), g>>, <<Pub("homeScore"), v>>>> :
               g \in GameIds, v \in Scores}
      [] path = TEAM_CSV ->
           {<<<<Pub("gameId"), g>>, <<Pub("teamId"), PyInt(7)>>, <<Pub("points"), v>>>> :
               g \in GameIds, v \in Scores}
      [] OTHER ->
           {<<<<Pub("gameId"), PyStr(<<"G", "1">>)>>, <<Pub("playerId"), e>>,
              <<Pub("points"), v>>>> : e \in PlayerIds, v \in Scores}

EmptyFrame == DataFrame(<<>>)

\* the variables of the other specifications at rest
MergeIdle ==
    /\ table = GAMES_CSV
    /\ mpc = "off"
    /\ df_new = EmptyFrame
    /\ df_old = EmptyFrame

BoxIdle ==
    /\ bpc = "off"
    /\ bs = LiveBox(NoLive)
    /\ prows = <<>>
    /\ trows = <<>>

FetchIdle ==
    /\ fst = "idle"
    /\ fcall = NoCall
    /\ cands = <<>>
    /\ reqs = <<>>
    /\ sb = NoScoreboard
    /\ bx = NoBoxscore

MainIdle ==
    /\ pc = "off"
    /\ targets = <<>>
    /\ di = 0
    /\ all_games = <<>>
    /\ gi = 0
    /\ all_players = <<>>
    /\ all_teams = <<>>
    /\ visited = <<>>
    /\ attempted = <<>>

NoFiles == [p \in Paths |-> NoFile]

InitMerge ==
    /\ files = NoFiles
    /\ now = 1
    /\ FetchIdle
    /\ MainIdle
    /\ table \in Paths
    /\ mpc = "collect"
    /\ df_new = EmptyFrame
    /\ df_old = EmptyFrame
    /\ BoxIdle

\* the rows of this run are collected (lines 360, 383) and framed (364, 387, 394)
MCollect ==
    /\ mpc = "collect"
    /\ \E batch \in SeqsUpTo(MergeRows(table), MaxBatch) :
          /\ batch # <<>>
          /\ df_new' = DataFrame(batch)
    /\ mpc' = "ensure"
    /\ UNCHANGED <<files, table, df_old, bvars, now, fvars, pvars>>

MEnsure ==
    /\ mpc = "ensure"
    /\ files' = [files EXCEPT ![table] = ensure_csv(files[table], df_new.columns)]
    /\ mpc' = "upsert"
    /\ UNCHANGED <<table, df_new, df_old, bvars, now, fvars, pvars>>

MUpsert ==
    /\ mpc = "upsert"
    /\ files' = [files EXCEPT ![table] =
                    upsert_csv(files[table], df_new, DedupeKeys(table))]
    /\ df_old' = read_csv(files[table])
    /\ mpc' = "collect"
    /\ UNCHANGED <<table, df_new, bvars, now, fvars, pvars>>

NextMerge == MCollect \/ MEnsure \/ MUpsert

SpecMerge == InitMerge /\ [][NextMerge]_vars

(***************************************************************************)
(* SpecBox: the two parsers applied to one tagged box-score document, as   *)
(* main does at lines 380-381.  Ids and scores are ints in the live family *)
(* and strings in the legacy one.                                          *)
(***************************************************************************)
BoxGameIds == {None, PyStr(<<"0", "0", "2", "1">>)}

LiveScores == {None, PyInt(90), PyInt(95), PyStr(<<"x">>)}

LegacyScores == {None, PyStr(<<"9", "0">>), PyStr(<<"9", "5">>), PyStr(<<"x">>)}

LiveTeamEntries ==
    {[teamId |-> id, teamTricode |-> tri, score |-> None, points |-> PyInt(90)] :
        id \in {None, PyInt(7), PyInt(8)}, tri \in {PyStr(<<"B", "O", "S">>)}}

LivePlayerEntries ==
    {[personId |-> id, teamTricode |-> PyStr(<<"B", "O", "S">>), points |-> PyInt(9)] :
        id \in {None, PyInt(30)}}

LegacyPlayerEntries ==
    {[personId |-> id, teamId |-> PyStr(<<"7">>), points |-> PyStr(<<"9">>)] :
        id \in {None, PyStr(<<"3", "0">>)}}

LiveBoxDocs ==
    {LiveBox([gameId |-> g,
              homeTeam |-> [teamId |-> PyInt(7), score |-> hs],
              awayTeam |-> [teamId |-> PyInt(8), score |-> as],
              boxScore |-> [teams |-> ts, players |-> ps]]) :
        g \in BoxGameIds, hs \in LiveScores, as \in LiveScores,
        ts \in SeqsUpTo(LiveTeamEntries, MaxEntries),
        ps \in SeqsUpTo(LivePlayerEntries, MaxEntries)}

LegacyStatsTeams(id) ==
    {[teamId |-> t, score |-> sc, points |-> None, pts |-> None,
      hasTotals |-> TRUE, totals |-> [points |-> pt, pts |-> None]] :
        t \in {None, id}, sc \in LegacyScores, pt \in {None, PyStr(<<"9", "0">>)}}

LegacyBoxDocs ==
    {LegacyBox([gameId |-> g, hTeam |-> [teamId |-> h], vTeam |-> [teamId |-> v]],
               [hTeam |-> sh, vTeam |-> sv, activePlayers |-> ps]) :
        g \in BoxGameIds,
        h \in {None, PyStr(<<"7">>)}, v \in {None, PyStr(<<"8">>)},
        sh \in LegacyStatsTeams(PyStr(<<"7">>)), sv \in LegacyStatsTeams(PyStr(<<"8">>)),
        ps \in SeqsUpTo(LegacyPlayerEntries, MaxEntries - 1)}

InitBox ==
    /\ files = NoFiles
    /\ now = 1
    /\ FetchIdle
    /\ MainIdle
    /\ MergeIdle
    /\ bs \in LiveBoxDocs \cup LegacyBoxDocs
    /\ bpc = "players"
    /\ prows = <<>>
    /\ trows = <<>>

\* line 380
BParsePlayers ==
    /\ bpc = "players"
    /\ prows' = parse_players_from_boxscore(bs)
    /\ bpc' = "teams"
    /\ UNCHANGED <<files, mvars, bs, trows, now, fvars, pvars>>

\* line 381
BParseTeams ==
    /\ bpc = "teams"
    /\ trows' = parse_teams_from_boxscore(bs)
    /\ bpc' = "done"
    /\ UNCHANGED <<files, mvars, bs, prows, now, fvars, pvars>>

NextBox == BParsePlayers \/ BParseTeams

SpecBox == InitBox /\ [][NextBox]_vars

(***************************************************************************)
(* SpecFetch: the two fetch functions called with arguments drawn from     *)
(* small sets, again and again.                                            *)
(***************************************************************************)
InitFetch ==
    /\ files = NoFiles
    /\ MergeIdle
    /\ BoxIdle
    /\ MainIdle
    /\ FetchIdle
    /\ now \in Days

FCallScoreboard ==
    /\ pc = "off"
    /\ fst \in {"idle", "returned"}
    /\ \E day \in Days : BeginScoreboard(day)
    /\ UNCHANGED <<files, mvars, bvars, now, pvars>>

\* the date hints: none, the empty string, a YYYYMMDD key
DateHints == {None, PyStr(<<>>)} \cup {PyStr(date_yyyymmdd(Date(d))) : d \in Days}

FCallBoxscore ==
    /\ pc = "off"
    /\ fst \in {"idle", "returned"}
    /\ \E hint \in DateHints : BeginBoxscore(GameA, hint)
    /\ UNCHANGED <<files, mvars, bvars, now, pvars>>

NextFetch ==
    FCallScoreboard \/ FCallBoxscore \/ FetchScoreboardStep \/ FetchBoxscoreStep \/ Tick

SpecFetch == InitFetch /\ [][NextFetch]_vars

(***************************************************************************)
(* Spec: one run of main.  The export directory is empty, or holds the     *)
(* tables an earlier run wrote.                                            *)
(***************************************************************************)
EarlierGames ==
    parse_scoreboard(TaggedScoreboard(
        ScoreboardDoc("live", <<RawGame(GameA, PyInt(80), PyInt(70))>>),
        "live", date_yyyymmdd(Date(1))))

EarlierBox == [(CHOOSE b \in BoxBodies(Url("box_live", <<>>, GameA)) :
                    b.game.boxScore.teams # <<>>) EXCEPT !.source = "live"]

EarlierFiles ==
    Persist(Persist(Persist(NoFiles, GAMES_CSV, games_rows(EarlierGames)),
                    PLAYERS_CSV, parse_players_from_boxscore(EarlierBox)),
            TEAM_CSV, parse_teams_from_boxscore(EarlierBox))

Init ==
    /\ files \in {NoFiles, EarlierFiles}
    /\ MergeIdle
    /\ BoxIdle
    /\ FetchIdle
    /\ now \in Days \ {1}
    /\ pc = "start"
    /\ targets = <<>>
    /\ di = 0
    /\ all_games = <<>>
    /\ gi = 0
    /\ all_players = <<>>
    /\ all_teams = <<>>
    /\ visited = <<>>
    /\ attempted = <<>>

\* the steps of the program
MainNext ==
    \/ MStart
    \/ MScoreboardCall
    \/ FetchScoreboardStep
    \/ MScoreboardParse
    \/ MPersistGames
    \/ MBoxscoreCall
    \/ FetchBoxscoreStep
    \/ MBoxscoreParse
    \/ MPersistPlayers
    \/ MPersistTeams

Next == MainNext \/ Tick

Spec == Init /\ [][Next]_vars

\* the interpreter runs the program on: a step that can be taken is taken
FairSpec == Spec /\ WF_vars(MainNext)

(***************************************************************************)
(* Claims about the box-score parsers (SpecBox).                           *)
(***************************************************************************)
\* the two scores of the game, as the document of each family gives them
HomeScoreOf(js) ==
    IF js.source = "live" THEN js.game.homeTeam.score
    ELSE score_of(js.stats.hTeam, Totals(js.stats.hTeam))

AwayScoreOf(js) ==
    IF js.source = "live" THEN js.game.awayTeam.score
    ELSE score_of(js.stats.vTeam, Totals(js.stats.vTeam))

\* the parse gave the records of the game's two teams: one home, one away
TeamPair ==
    /\ bpc = "done"
    /\ Len(trows) = 2
    /\ {Get(trows[1], Pub("home")), Get(trows[2], Pub("home"))} = {PyInt(1), PyInt(0)}

WinFlags == <<Get(trows[1], Pub("win")), Get(trows[2], Pub("win"))>>

\* C5: of the two team records of one box score, exactly one has win = 1 and
\* the other win = 0 when both scores are present, numeric and different; both
\* have win = null when either score is missing or not numeric.
C5_WinFlagOfPair ==
    TeamPair =>
        LET hs == HomeScoreOf(bs)
            as == AwayScoreOf(bs)
        IN  /\ (IntOk(hs) /\ IntOk(as) /\ IntOf(hs) # IntOf(as))
                   => (WinFlags \in {<<PyInt(1), PyInt(0)>>, <<PyInt(0), PyInt(1)>>})
            /\ (~IntOk(hs) \/ ~IntOk(as)) => WinFlags = <<None, None>>

\* C6: every team record has a non-empty gameId and teamId, every player
\* record a non-empty gameId and playerId.
C6_RequiredKeysPresent ==
    bpc = "done" =>
        /\ \A i \in 1..Len(trows) :
               Truthy(Get(trows[i], Pub("gameId"))) /\ Truthy(Get(trows[i], Pub("teamId")))
        /\ \A i \in 1..Len(prows) :
               Truthy(Get(prows[i], Pub("gameId"))) /\ Truthy(Get(prows[i], Pub("playerId")))

(***************************************************************************)
(* Claims about the merge (SpecMerge).                                     *)
(***************************************************************************)
\* the stanza has run at least once and is back at its start
Merged == mpc = "collect" /\ files[table].exists

NoDuplicateKey(df, subset) ==
    \A i, j \in 1..Len(df.rows) :
        i # j => ~SameKey(df.rows[i], df.rows[j], df.columns, subset)

KeyCells(line, columns, subset) ==
    [j \in 1..Len(subset) |-> line[ColIndex(columns, subset[j])]]

RowText(row) == [c \in 1..Len(row) |-> CellText(row[c])]

\* row i of the batch is the last row of the batch with its key
LastInBatch(df, i, subset) ==
    ~\E j \in (i + 1)..Len(df.rows) :
        SameKey(df.rows[i], df.rows[j], df.columns, subset)

\* C1: after any sequence of upserts on a table, the table as read back holds
\* at most one row per dedupe key, and for every key of the most recent batch
\* the one stored row with that key carries the values of the batch's last row
\* with that key.
C1_OneRowPerKeyLatestWins ==
    Merged =>
        LET subset == DedupeKeys(table)
            file   == files[table]
        IN  /\ NoDuplicateKey(read_csv(file), subset)
            /\ \A i \in 1..Len(df_new.rows) :
                   LastInBatch(df_new, i, subset) =>
                       LET key  == KeyCells(RowText(df_new.rows[i]), df_new.columns, subset)
                           hits == {l \in 1..Len(file.lines) :
                                       KeyCells(file.lines[l], file.header, subset) = key}
                       IN  /\ Cardinality(hits) = 1
                           /\ \A l \in hits : file.lines[l] = RowText(df_new.rows[i])

Count(seq, x) == Cardinality({i \in 1..Len(seq) : seq[i] = x})

SameLinesIgnoringOrder(f, g) ==
    /\ f.header = g.header
    /\ Len(f.lines) = Len(g.lines)
    /\ \A x \in Vals(f.lines) \cup Vals(g.lines) : Count(f.lines, x) = Count(g.lines, x)

\* every row of the batch is, byte for byte, a line of the stored table
BatchAlreadyStored ==
    \A i \in 1..Len(df_new.rows) :
        \E l \in 1..Len(files[table].lines) :
            files[table].lines[l] = RowText(df_new.rows[i])

\* C2: upserting a batch whose rows are all stored already, byte for byte,
\* leaves a table equal to the one before, ignoring the order of the rows.
C2_MergeIdempotent ==
    [][(mpc = "upsert" /\ BatchAlreadyStored)
          => SameLinesIgnoringOrder(files'[table], files[table])]_vars

\* some key occurs in the existing table and in the new batch
KeyInBoth ==
    \E i \in 1..Len(df_old.rows), j \in 1..Len(df_new.rows) :
        SameKey(df_old.rows[i], df_new.rows[j], df_new.columns, DedupeKeys(table))

LastSeen(df, subset) == {i \in 1..Len(df.rows) : LastInBatch(df, i, subset)}

\* the p-th smallest element of a set of numbers
Nth(S, p) == CHOOSE x \in S : Cardinality({y \in S : y < x}) = p - 1

InScoreboard == fcall.fn = "scoreboard"

InBoxscore == fcall.fn = "boxscore"

\* the ordered list of the scoreboard URLs of the call
ScoreboardOrder ==
    LET ymd == date_yyyymmdd(Date(fcall.day))
    IN  IF fcall.day = fcall.today
        THEN <<Url("live_date", ymd, None), Url("live_today", <<>>, None),
               Url("legacy_v1", ymd, None), Url("legacy_v2", ymd, None)>>
        ELSE <<Url("live_date", ymd, None),
               Url("legacy_v1", ymd, None), Url("legacy_v2", ymd, None)>>

\* the ordered list of the box-score URLs of the call
BoxscoreOrder ==
    IF fcall.hint.k = "str" /\ fcall.hint.s # <<>>
    THEN <<Url("box_live", <<>>, fcall.game_id),
           Url("box_v1", fcall.hint.s, fcall.game_id),
           Url("box_v2", fcall.hint.s, fcall.game_id)>>
    ELSE <<Url("box_live", <<>>, fcall.game_id)>>

\* the requests so far are a prefix of the list
PrefixOf(order) ==
    /\ Len(reqs) <= Len(order)
    /\ \A i \in 1..Len(reqs) : reqs[i].url = order[i]

\* a live URL is never requested after a legacy one
LiveBeforeLegacy ==
    \A i, j \in 1..Len(reqs) :
        (FamilyOf(reqs[i].url) = "legacy" /\ FamilyOf(reqs[j].url) = "live") => j < i

\* C3 as stated: the requests of fetch_scoreboard are a prefix of [live
\* date-keyed, live today (only when d is today), legacy v1, legacy v2], live
\* before legacy; none follows a candidate that returned a document; the
\* document returned carries the family of the candidate that answered;
\* absence is returned only when every candidate failed.
C3_ScoreboardStopsAtFirstDocument ==
    InScoreboard =>
        /\ PrefixOf(ScoreboardOrder)
        /\ LiveBeforeLegacy
        /\ \A i \in 1..(Len(reqs) - 1) : reqs[i].got = "fail"
        /\ (fst = "returned" /\ sb.ok) =>
               /\ reqs[Len(reqs)].got # "fail"
               /\ sb.source = FamilyOf(reqs[Len(reqs)].url)
        /\ (fst = "returned" /\ ~sb.ok) =>
               /\ Len(reqs) = Len(ScoreboardOrder)
               /\ \A i \in 1..Len(reqs) : reqs[i].got = "fail"

\* C3 amended: the same, where the candidate that ends the resolution is the
\* first that returns a non-empty document: an empty JSON object counts as a
\* failure, the next candidate is requested after it, and absence is returned
\* when every candidate failed or returned an empty object.
C3_ScoreboardStopsAtFirstNonEmptyDocument ==
    InScoreboard =>
        /\ PrefixOf(ScoreboardOrder)
        /\ LiveBeforeLegacy
        /\ \A i \in 1..(Len(reqs) - 1) : reqs[i].got \in {"fail", "empty"}
        /\ (fst = "running") => \A i \in 1..Len(reqs) : reqs[i].got \in {"fail", "empty"}
        /\ (fst = "returned" /\ sb.ok) =>
               /\ reqs[Len(reqs)].got = "doc"
               /\ sb.source = FamilyOf(reqs[Len(reqs)].url)
               /\ sb.ymd = date_yyyymmdd(Date(fcall.day))
        /\ (fst = "returned" /\ ~sb.ok) =>
               /\ Len(reqs) = Len(ScoreboardOrder)
               /\ \A i \in 1..Len(reqs) : reqs[i].got \in {"fail", "empty"}

\* today's scoreboard came from the legacy family after both live URLs failed
C3_Witness ==
    /\ InScoreboard
    /\ fst = "returned"
    /\ fcall.day = fcall.today
    /\ Len(reqs) = 3
    /\ reqs[2].url.kind = "live_today"
    /\ sb.ok
    /\ sb.source = "legacy"

\* C4 as stated: fetch_boxscore requests the live URL first, then legacy v1
\* and v2 only after a live failure and with a non-empty date hint; no request
\* follows one that returned a document; without a date hint a live failure
\* gives absence after exactly one request.
C4_BoxscoreStopsAtFirstDocument ==
    InBoxscore =>
        /\ PrefixOf(BoxscoreOrder)
        /\ \A i \in 1..(Len(reqs) - 1) : reqs[i].got = "fail"
        /\ (fst = "returned" /\ bx.ok) => reqs[Len(reqs)].got # "fail"
        /\ (fst = "returned" /\ ~bx.ok) =>
               /\ Len(reqs) = Len(BoxscoreOrder)
               /\ \A i \in 1..Len(reqs) : reqs[i].got = "fail"

\* C4 amended: the same, where the request that ends the resolution is the
\* first that returns a non-empty document: an empty JSON object counts as a
\* failure of that request.
C4_BoxscoreStopsAtFirstNonEmptyDocument ==
    InBoxscore =>
        /\ PrefixOf(BoxscoreOrder)
        /\ \A i \in 1..(Len(reqs) - 1) : reqs[i].got \in {"fail", "empty"}
        /\ (fst = "running") => \A i \in 1..Len(reqs) : reqs[i].got \in {"fail", "empty"}
        /\ (fst = "returned" /\ bx.ok) =>
               /\ reqs[Len(reqs)].got = "doc"
               /\ bx.doc.source = FamilyOf(reqs[Len(reqs)].url)
        /\ (fst = "returned" /\ ~bx.ok) =>
               /\ Len(reqs) = Len(BoxscoreOrder)
               /\ \A i \in 1..Len(reqs) : reqs[i].got \in {"fail", "empty"}
               /\ ~Truthy(fcall.hint) => Len(reqs) = 1

\* without a date hint the live request failed and nothing else was requested
C4_Witness ==
    /\ InBoxscore
    /\ fst = "returned"
    /\ fcall.hint = None
    /\ Len(reqs) = 1
    /\ reqs[1].got = "fail"
    /\ ~bx.ok

(***************************************************************************)
(* Claims about a run of main (Spec, FairSpec).                            *)
(***************************************************************************)
GameIdsOf(games) == [i \in 1..Len(games) |-> Get(games[i], Pub("gameId"))]

YmdOf(day) == PyStr(date_yyyymmdd(Date(day)))

RunComplete ==
    /\ pc = "done"
    /\ visited = targets
    /\ attempted = GameIdsOf(all_games)

\* C8: whatever requests fail, the run visits every target date in order,
\* attempts the box score of every discovered game and reaches its completion
\* step; an unresolved scoreboard or box score adds no rows.
C8_RunCompletes ==
    /\ <>RunComplete
    /\ [][(pc = "sb_wait" /\ fst = "returned" /\ ~sb.ok /\ pc' # pc)
             => all_games' = all_games]_vars
    /\ [][(pc = "box_wait" /\ fst = "returned" /\ ~bx.ok /\ pc' # pc)
             => (all_players' = all_players /\ all_teams' = all_teams)]_vars

\* a run is complete whose first date gave no games and whose last box score
\* could not be resolved
C8_Witness ==
    /\ RunComplete
    /\ Len(targets) >= 2
    /\ all_games # <<>>
    /\ \A i \in 1..Len(all_games) :
          Get(all_games[i], Pub("gameDateYmd")) = YmdOf(targets[Len(targets)])
    /\ ~bx.ok

\* the games table has been written by this run
GamesWritten ==
    /\ pc \in {"box_call", "box_wait", "persist_players", "persist_teams", "done"}
    /\ all_games # <<>>

HeaderSet(path) == Vals(files[path].header)

Tagged ==
    \A i \in 1..Len(all_games) :
        /\ Get(all_games[i], Priv("source")) \in {LiveTag, LegacyTag}
        /\ \E j \in 1..Len(targets) :
              Get(all_games[i], Pub("gameDateYmd")) = YmdOf(targets[j])

\* C9 as stated: every game record carries the source family and the
\* YYYYMMDD key, and the persisted games table has a column for neither.
C9_NoTagColumnPersisted ==
    /\ Tagged
    /\ GamesWritten =>
          /\ Priv("source") \notin HeaderSet(GAMES_CSV)
          /\ Pub("gameDateYmd") \notin HeaderSet(GAMES_CSV)

\* C9 amended: every game record carries the source family (_source) and the
\* YYYYMMDD key (gameDateYmd); only the keys that start with an underscore are
\* removed, so the persisted games table has no column for the source family
\* and has the column gameDateYmd, which holds the YYYYMMDD key.
C9_OnlyUnderscoreTagStripped ==
    /\ Tagged
    /\ GamesWritten =>
          LET file == files[GAMES_CSV]
              ymd  == ColIndex(file.header, Pub("gameDateYmd"))
          IN  /\ \A c \in HeaderSet(GAMES_CSV) : ~StartsWithUnderscore(c)
              /\ Pub("gameDateYmd") \in HeaderSet(GAMES_CSV)
              /\ Len(file.lines) >= 1
              /\ file.lines[Len(file.lines)][ymd] =
                     Get(all_games[Len(all_games)], Pub("gameDateYmd")).s

\* the games table was written from a record tagged legacy
C9_Witness ==
    /\ GamesWritten
    /\ Get(all_games[Len(all_games)], Priv("source")) = LegacyTag

\* C10: a table changes in a run only if the run collected a row for it, a
\* box score is requested only for a discovered game, and the games table is
\* written whenever a game was discovered, whatever the box-score fetches give.
C10_TablesChangeOnlyWithRows ==
    /\ [][/\ (files'[GAMES_CSV] # files[GAMES_CSV]) => all_games # <<>>
          /\ (files'[PLAYERS_CSV] # files[PLAYERS_CSV]) => all_players # <<>>
          /\ (files'[TEAM_CSV] # files[TEAM_CSV]) => all_teams # <<>>
          /\ (fcall'.fn = "boxscore" /\ reqs' # reqs) => all_games # <<>>]_vars
    /\ [](GamesWritten =>
            /\ files[GAMES_CSV].exists
            /\ Len(files[GAMES_CSV].lines) >= 1
            /\ files[GAMES_CSV].lines[Len(files[GAMES_CSV].lines)][1] =
                   CellText(Get(all_games[Len(all_games)], Pub("gameId"))))

\* a run found one game, its box score could not be resolved, and only the
\* games table exists
C10_Witness ==
    /\ pc = "done"
    /\ Len(all_games) = 1
    /\ ~bx.ok
    /\ all_players = <<>>
    /\ all_teams = <<>>
    /\ files[GAMES_CSV].exists
    /\ ~files[PLAYERS_CSV].exists
    /\ ~files[TEAM_CSV].exists

====
